---- MODULE Spec2Model ----
(***************************************************************************)
(* Model of the Scribe-Data CLI.                                           *)
(*                                                                         *)
(* Spec: the interactive mode (src/scribe_data/cli/interactive.py): the    *)
(* configuration singleton, the prompts of configure_settings and          *)
(* request_total_lexeme, the menus of start_interactive_mode and           *)
(* request_total_lexeme_loop, and run_request.                             *)
(* SpecRunRequest: run_request called on its own, on any configuration.    *)
(* SpecMain: main (src/scribe_data/cli/main.py), from the parsed arguments *)
(* to the call it dispatches to.                                           *)
(* SpecFormat: the Portuguese verbs formatter.                             *)
(*                                                                         *)
(* A Python str is modelled as a sequence of one-character strings, so     *)
(* that split, strip, capitalize, lower and the substring test are         *)
(* computed character by character, as Python computes them.               *)
(***************************************************************************)
EXTENDS Integers, Sequences, FiniteSets, TLC

(***************************************************************************)
(* Bounds of the model.                                                    *)
(***************************************************************************)
\* The largest number of comma-separated tokens in a generated selection input.
MaxTokens == 2

\* The largest number of rows of a generated query result.
MaxRows == 2

(***************************************************************************)
(* Python str operations.                                                  *)
(***************************************************************************)
\* str.upper / str.lower on one character (the letters the inputs use).
UpperChar(c) ==
    CASE c = "a" -> "A"
      [] c = "l" -> "L"
      [] c = "y" -> "Y"
      [] c = "n" -> "N"
      [] c = "x" -> "X"
      [] c = "f" -> "F"
      [] c = "g" -> "G"
      [] c = "v" -> "V"
      [] c = "p" -> "P"
      [] c = "e" -> "E"
      [] c = "s" -> "S"
      [] c = "o" -> "O"
      [] OTHER -> c

LowerChar(c) ==
    CASE c = "A" -> "a"
      [] c = "L" -> "l"
      [] c = "Y" -> "y"
      [] c = "N" -> "n"
      [] c = "X" -> "x"
      [] c = "F" -> "f"
      [] c = "G" -> "g"
      [] c = "V" -> "v"
      [] c = "P" -> "p"
      [] c = "E" -> "e"
      [] c = "S" -> "s"
      [] c = "O" -> "o"
      [] OTHER -> c

\* s.lower()
Lower(s) == [k \in 1..Len(s) |-> LowerChar(s[k])]

\* s.capitalize(): the first character upper-cased, all the others lower-cased.
Capitalize(s) ==
    [k \in 1..Len(s) |-> IF k = 1 THEN UpperChar(s[k]) ELSE LowerChar(s[k])]

\* sub in s (Python's substring test).
Contains(s, sub) ==
    \E k \in 0..(Len(s) - Len(sub)) :
        \A m \in 1..Len(sub) : s[k + m] = sub[m]

IsSpace(c) == c = " "

\* s.strip(): s without its leading and trailing whitespace.
RECURSIVE LStrip(_)
LStrip(s) ==
    IF s # <<>> /\ IsSpace(s[1]) THEN LStrip(Tail(s)) ELSE s

RECURSIVE RStrip(_)
RStrip(s) ==
    IF s # <<>> /\ IsSpace(s[Len(s)]) THEN RStrip(SubSeq(s, 1, Len(s) - 1)) ELSE s

Strip(s) == RStrip(LStrip(s))

\* s.split(sep) for a one-character sep: always at least one piece, empty
\* pieces kept.
RECURSIVE Split(_, _)
Split(s, sep) ==
    IF \E k \in 1..Len(s) : s[k] = sep
    THEN LET k == CHOOSE k \in 1..Len(s) :
                      s[k] = sep /\ \A m \in 1..(k - 1) : s[m] # sep
         IN  <<SubSeq(s, 1, k - 1)>> \o Split(SubSeq(s, k + 1, Len(s)), sep)
    ELSE <<s>>

\* x in lst, for a Python list lst.
InList(x, lst) == \E k \in 1..Len(lst) : lst[k] = x

\* The comprehension without its membership condition.
RECURSIVE FilterTokensWithoutMembership(_, _)
FilterTokensWithoutMembership(tokens, registry) ==
    IF tokens = <<>> THEN <<>>
    ELSE <<Strip(Head(tokens))>> \o FilterTokensWithoutMembership(Tail(tokens), registry)

\* [t.strip() for t in tokens if t.strip() in registry]
RECURSIVE FilterTokens(_, _)
FilterTokens(tokens, registry) ==
    IF tokens = <<>> THEN <<>>
    ELSE LET t == Strip(Head(tokens))
         IN  (IF InList(t, registry) THEN <<t>> ELSE <<>>)
                 \o FilterTokens(Tail(tokens), registry)

\* sep.join(parts)
RECURSIVE Join(_, _)
Join(parts, sep) ==
    IF parts = <<>> THEN <<>>
    ELSE IF Len(parts) = 1 THEN parts[1]
    ELSE parts[1] \o sep \o Join(Tail(parts), sep)

(***************************************************************************)
(* String constants.                                                       *)
(***************************************************************************)
Comma == ","
AllWord == <<"A", "l", "l">>
Json == <<"j", "s", "o", "n">>
Csv == <<"c", "s", "v">>
Tsv == <<"t", "s", "v">>
Sqlite == <<"s", "q", "l", "i", "t", "e">>
Yes == <<"y">>

\* ScribeDataConfig.__init__: the Registry lists, fixed for the process
\* lifetime (two names stand for each list: language names are capitalised,
\* as LANGUAGE of format_verbs.py is, and a data-type name may hold "_").
languages == << <<"F">>, <<"G">> >>
data_types == << <<"n">>, <<"p", "_", "n">> >>

\* DEFAULT_JSON_EXPORT_DIR
DefaultExportDir == <<"d">>

\* The accepted output types of the interactive session.
OutputTypes == {Json, Csv, Tsv}

\* pathlib.Path(s), as the string str(Path(s)): empty and "." components and
\* a trailing separator are dropped.
RECURSIVE DropDotParts(_)
DropDotParts(parts) ==
    IF parts = <<>> THEN <<>>
    ELSE (IF Head(parts) = <<>> \/ Head(parts) = <<".">> THEN <<>> ELSE <<Head(parts)>>)
             \o DropDotParts(Tail(parts))

Path(s) ==
    LET parts == DropDotParts(Split(s, "/"))
    IN  IF s # <<>> /\ s[1] = "/" THEN <<"/">> \o Join(parts, <<"/">>)
        ELSE IF parts = <<>> THEN <<".">>
        ELSE Join(parts, <<"/">>)

(***************************************************************************)
(* What the user may type at the prompts.                                  *)
(***************************************************************************)
\* The tokens of a generated selection input for a Registry list: its first
\* name, its other names padded with blanks, and a name outside it.
SelectionTokens(registry) ==
    {registry[1], <<"x">>}
        \cup {<<" ">> \o registry[k] \o <<" ">> : k \in 2..Len(registry)}

\* Inputs that use the word "All": in some casing, padded, inside a longer
\* name, and next to a name of the Registry list.
AllInputs(registry) ==
    { <<"A", "l", "l">>, <<"a", "l", "l">>, <<"A", "L", "L">>, <<"a", "L", "l">>,
      <<" ", "A", "l", "l">>, <<"A", "l", "l", "x">>, <<"x", ",", "A", "l", "l">>,
      registry[1] \o <<",", "A", "l", "l", "x">>,
      <<"a", "l", "l", "x", ",">> \o registry[1] }

\* Empty and whitespace-only inputs.
BlankInputs == {<<>>, <<" ">>}

SelectionInputs(registry) ==
    {Join(ts, <<Comma>>) :
        ts \in UNION {[1..n -> SelectionTokens(registry)] : n \in 1..MaxTokens}}
        \cup AllInputs(registry) \cup BlankInputs

LanguageInputs == SelectionInputs(languages)
DataTypeInputs == SelectionInputs(data_types)

OutputTypeInputs == {Json, Csv, Tsv, Sqlite, <<"J", "S", "O", "N">>, <<>>}

OutputDirInputs == {<<>>, <<"o">>, <<"o", "/">>, <<".", "/", "o">>, <<"/", "t">>}

OverwriteInputs ==
    {<<>>, <<"y">>, <<"Y">>, <<"n">>, <<"N">>, <<"y", "e", "s">>, <<"Y", "e", "s">>,
     <<"n", "o">>, <<" ", "y">>}

\* The outcomes of one get_data call: a truthy return value, a falsy one,
\* or an exception.
GetDataOutcomes == {"true", "false", "raise"}

(***************************************************************************)
(* State.                                                                  *)
(***************************************************************************)
VARIABLES
    pc,                  \* where the session is blocked (a prompt, a menu, a call) or ended
    selected_languages,  \* config.selected_languages
    selected_data_types, \* config.selected_data_types
    output_type,         \* config.output_type
    output_dir,          \* config.output_dir, as str(config.output_dir)
    overwrite,           \* config.overwrite
    configured,          \* config.configured
    last_prompt,         \* the prompt answered last by the running handler ("none": no prompt yet)
    last_input,          \* what prompt() returned there
    completed,           \* the steps completed by the running call of configure_settings
    printed,             \* the messages printed by the last step
    lang_idx,            \* run_request: position of the outer loop (1-based)
    dt_idx,              \* run_request: position of the inner loop (1-based)
    get_data_calls,      \* the get_data calls made so far, with their arguments
    n_exported,          \* run_request: the pairs logged as exported so far
    n_failed,            \* run_request: the pairs logged as failed so far
    total_calls,         \* the total_wrapper calls made so far
    list_calls,          \* the list_wrapper calls made so far
    in_session,          \* start_interactive_mode is the caller of what runs
    args,                \* main: the namespace parse_args returned
    main_calls,          \* main: the calls it made so far, with their arguments
    verbs_list,          \* format_verbs.py: the rows load_queried_data returned
    verbs_formatted      \* format_verbs.py: the dict, as its (key, value) items in order

config == <<selected_languages, selected_data_types, output_type, output_dir,
            overwrite, configured>>
run_vars == <<lang_idx, dt_idx, get_data_calls, n_exported, n_failed>>
wrapper_calls == <<total_calls, list_calls>>
main_vars == <<args, main_calls>>
format_vars == <<verbs_list, verbs_formatted>>
outside_session == <<in_session, main_vars, format_vars>>
vars == <<pc, config, last_prompt, last_input, completed, printed, run_vars,
          wrapper_calls, outside_session>>

\* Lines 60-69: config = ScribeDataConfig().
NewConfig ==
    /\ selected_languages = <<>>
    /\ selected_data_types = <<>>
    /\ output_type = Json
    /\ output_dir = Path(DefaultExportDir)
    /\ overwrite = FALSE
    /\ configured = FALSE

\* No prompt answered, no loop entered and no call made yet.
NothingDone ==
    /\ last_prompt = "none"
    /\ last_input = <<>>
    /\ completed = <<>>
    /\ lang_idx = 0
    /\ dt_idx = 0
    /\ get_data_calls = <<>>
    /\ n_exported = 0
    /\ n_failed = 0
    /\ total_calls = <<>>
    /\ list_calls = <<>>

\* main was not entered: the namespace a process without it has.
NoArgs == [command |-> "none"]

NoMain ==
    /\ args = NoArgs
    /\ main_calls = <<>>

\* format_verbs.py was not run.
NoFormat ==
    /\ verbs_list = <<>>
    /\ verbs_formatted = <<>>

\* Lines 377-378: the module run as a script; config = ScribeDataConfig(), and
\* start_interactive_mode blocked at its first menu.
Init ==
    /\ pc = "menu"
    /\ NewConfig
    /\ NothingDone
    /\ printed = <<"welcome">>
    /\ in_session = TRUE
    /\ NoMain
    /\ NoFormat

(***************************************************************************)
(* start_interactive_mode: the main menu.                                  *)
(***************************************************************************)
\* The choices the menu offers; ask() gives one of them, or None when the
\* question is cancelled.
MenuChoices ==
    IF selected_languages = <<>> /\ selected_data_types = <<>>
    THEN {"configure", "total", "languages", "exit"}
    ELSE {"configure", "exit"} \cup (IF configured THEN {"run"} ELSE {"total"})

\* A handler starts with no prompt answered yet.
NoPrompt ==
    /\ last_prompt' = "none"
    /\ last_input' = <<>>

\* choice == "configure": configure_settings() runs up to its language prompt.
MenuConfigure ==
    /\ pc = "menu"
    /\ "configure" \in MenuChoices
    /\ pc' = "cs_languages"
    /\ completed' = <<>>
    /\ printed' = <<"follow_prompts">>
    /\ NoPrompt
    /\ UNCHANGED <<config, run_vars, wrapper_calls, outside_session>>

(***************************************************************************)
(* configure_settings.                                                     *)
(***************************************************************************)
\* The language selection with "All" taken as a name like any other.
ConfigureSelectLanguagesWithoutAll(inp) ==
    FilterTokens(Split(inp, Comma), languages)

\* Lines 123-130: the selection the language prompt's answer stands for.
ConfigureSelectLanguages(inp) ==
    IF Contains(inp, AllWord)
    THEN languages
    ELSE FilterTokens(Split(inp, Comma), languages)

\* Lines 145-152: the selection the data-type prompt's answer stands for.
ConfigureSelectDataTypes(inp) ==
    IF Contains(Capitalize(inp), AllWord)
    THEN data_types
    ELSE FilterTokens(Split(inp, Comma), data_types)

\* The language prompt returns: lines 117-134, up to the next prompt.
ConfigureLanguages ==
    /\ pc = "cs_languages"
    /\ \E inp \in LanguageInputs :
        LET sel == ConfigureSelectLanguages(inp)
        IN  /\ last_prompt' = "cs_languages"
            /\ last_input' = inp
            /\ selected_languages' = sel
            /\ IF sel = <<>>
               THEN \* return configure_settings()
                    /\ pc' = "cs_languages"
                    /\ completed' = <<>>
                    /\ printed' = <<"no_language_selected", "follow_prompts">>
               ELSE /\ pc' = "cs_data_types"
                    /\ completed' = Append(completed, "languages")
                    /\ printed' = <<>>
    /\ UNCHANGED <<selected_data_types, output_type, output_dir, overwrite,
                   configured, run_vars, wrapper_calls, outside_session>>

\* The data-type step without the return of line 156: an empty selection is
\* warned about and the pass goes on.
ConfigureDataTypesWithoutRetry ==
    /\ pc = "cs_data_types"
    /\ \E inp \in DataTypeInputs :
        LET sel == ConfigureSelectDataTypes(inp)
        IN  /\ last_prompt' = "cs_data_types"
            /\ last_input' = inp
            /\ selected_data_types' = sel
            /\ printed' = IF sel = <<>> THEN <<"no_data_type_selected">> ELSE <<>>
    /\ pc' = "cs_output_type"
    /\ completed' = Append(completed, "data_types")
    /\ UNCHANGED <<selected_languages, output_type, output_dir, overwrite,
                   configured, run_vars, wrapper_calls, outside_session>>

\* The data-type prompt returns: lines 139-156, up to the next prompt.
ConfigureDataTypes ==
    /\ pc = "cs_data_types"
    /\ \E inp \in DataTypeInputs :
        LET sel == ConfigureSelectDataTypes(inp)
        IN  /\ last_prompt' = "cs_data_types"
            /\ last_input' = inp
            /\ selected_data_types' = sel
            /\ IF sel = <<>>
               THEN \* return configure_settings()
                    /\ pc' = "cs_languages"
                    /\ completed' = <<>>
                    /\ printed' = <<"no_data_type_selected", "follow_prompts">>
               ELSE /\ pc' = "cs_output_type"
                    /\ completed' = Append(completed, "data_types")
                    /\ printed' = <<>>
    /\ UNCHANGED <<selected_languages, output_type, output_dir, overwrite,
                   configured, run_vars, wrapper_calls, outside_session>>

\* The output-type step without the loop of lines 163-167: any answer is
\* kept.
ConfigureOutputTypeWithoutLoop ==
    /\ pc = "cs_output_type"
    /\ \E inp \in OutputTypeInputs :
        /\ last_prompt' = "cs_output_type"
        /\ last_input' = inp
        /\ output_type' = inp
    /\ pc' = "cs_output_dir"
    /\ completed' = Append(completed, "output_type")
    /\ printed' = <<>>
    /\ UNCHANGED <<selected_languages, selected_data_types, output_dir, overwrite,
                   configured, run_vars, wrapper_calls, outside_session>>

\* The output-type step with json taken in place of an answer outside the
\* list, and no loop.
ConfigureOutputTypeDefaultsToJson ==
    /\ pc = "cs_output_type"
    /\ \E inp \in OutputTypeInputs :
        /\ last_prompt' = "cs_output_type"
        /\ last_input' = inp
        /\ output_type' = IF inp \in OutputTypes THEN inp ELSE Json
    /\ pc' = "cs_output_dir"
    /\ completed' = Append(completed, "output_type")
    /\ printed' = <<>>
    /\ UNCHANGED <<selected_languages, selected_data_types, output_dir, overwrite,
                   configured, run_vars, wrapper_calls, outside_session>>

\* The output-type prompt returns (the first prompt or one of the loop's):
\* lines 160-167, up to the next prompt.
ConfigureOutputType ==
    /\ pc = "cs_output_type"
    /\ \E inp \in OutputTypeInputs :
        /\ last_prompt' = "cs_output_type"
        /\ last_input' = inp
        /\ output_type' = inp
        /\ IF inp \notin OutputTypes
           THEN /\ pc' = "cs_output_type"
                /\ completed' = completed
                /\ printed' = <<"invalid_output_type">>
           ELSE /\ pc' = "cs_output_dir"
                /\ completed' = Append(completed, "output_type")
                /\ printed' = <<>>
    /\ UNCHANGED <<selected_languages, selected_data_types, output_dir, overwrite,
                   configured, run_vars, wrapper_calls, outside_session>>

\* The output-directory step with an empty answer taken as the default
\* export directory.
ConfigureOutputDirBlankGivesDefault ==
    /\ pc = "cs_output_dir"
    /\ \E inp \in OutputDirInputs :
        /\ last_prompt' = "cs_output_dir"
        /\ last_input' = inp
        /\ output_dir' = IF inp # <<>> THEN Path(inp) ELSE Path(DefaultExportDir)
    /\ pc' = "cs_overwrite"
    /\ completed' = Append(completed, "output_dir")
    /\ printed' = <<>>
    /\ UNCHANGED <<selected_languages, selected_data_types, output_type, overwrite,
                   configured, run_vars, wrapper_calls, outside_session>>

\* The output-directory prompt returns: lines 170-171, up to the next prompt.
ConfigureOutputDir ==
    /\ pc = "cs_output_dir"
    /\ \E inp \in OutputDirInputs :
        /\ last_prompt' = "cs_output_dir"
        /\ last_input' = inp
        /\ output_dir' = IF inp # <<>> THEN Path(inp) ELSE output_dir
    /\ pc' = "cs_overwrite"
    /\ completed' = Append(completed, "output_dir")
    /\ printed' = <<>>
    /\ UNCHANGED <<selected_languages, selected_data_types, output_type, overwrite,
                   configured, run_vars, wrapper_calls, outside_session>>

\* Lines 175-179: the flag the overwrite prompt's answer stands for.
OverwriteAnswer(inp) ==
    LET answer == IF inp # <<>> THEN inp ELSE Yes
    IN  Lower(answer) = Yes

\* The overwrite step without line 181: config.configured is left as it
\* was.
ConfigureOverwriteWithoutConfigured ==
    /\ pc = "cs_overwrite"
    /\ \E inp \in OverwriteInputs :
        /\ last_prompt' = "cs_overwrite"
        /\ last_input' = inp
        /\ overwrite' = OverwriteAnswer(inp)
    /\ pc' = "menu"
    /\ completed' = Append(completed, "overwrite")
    /\ printed' = <<"summary">>
    /\ UNCHANGED <<selected_languages, selected_data_types, output_type, output_dir,
                   configured, run_vars, wrapper_calls, outside_session>>

\* The overwrite prompt returns: lines 175-182, back to the menu.
ConfigureOverwrite ==
    /\ pc = "cs_overwrite"
    /\ \E inp \in OverwriteInputs :
        /\ last_prompt' = "cs_overwrite"
        /\ last_input' = inp
        /\ overwrite' = OverwriteAnswer(inp)
    /\ configured' = TRUE
    /\ pc' = "menu"
    /\ completed' = Append(completed, "overwrite")
    /\ printed' = <<"summary">>
    /\ UNCHANGED <<selected_languages, selected_data_types, output_type, output_dir,
                   run_vars, wrapper_calls, outside_session>>

(***************************************************************************)
(* run_request.                                                            *)
(***************************************************************************)
\* Lines 370-371: what start_interactive_mode prints once run_request has
\* returned to it (a direct caller of run_request prints nothing).
SessionEpilogue == IF in_session THEN <<"thanks">> ELSE <<>>

\* The get_data call with the default export directory in place of
\* config.output_dir.
GetDataArgsWithDefaultDir(i, j) ==
    [language |-> selected_languages[i],
     data_type |-> selected_data_types[j],
     output_type |-> output_type,
     output_dir |-> Path(DefaultExportDir),
     overwrite |-> overwrite,
     interactive |-> TRUE]

\* Lines 206-213: the arguments of the get_data call for the pair at (i, j).
GetDataArgs(i, j) ==
    [language |-> selected_languages[i],
     data_type |-> selected_data_types[j],
     output_type |-> output_type,
     output_dir |-> output_dir,
     overwrite |-> overwrite,
     interactive |-> TRUE]

\* run_request without the check of lines 189-191: with an empty selection
\* the loops run over nothing.
RunRequestEnterWithoutCheck ==
    IF selected_languages = <<>> \/ selected_data_types = <<>>
    THEN /\ pc' = "done"
         /\ printed' = (IF overwrite THEN <<"request_completed">> ELSE <<>>)
                            \o SessionEpilogue
         /\ UNCHANGED run_vars
    ELSE /\ pc' = "get_data"
         /\ lang_idx' = 1
         /\ dt_idx' = 1
         /\ get_data_calls' = Append(get_data_calls, GetDataArgs(1, 1))
         /\ printed' = <<>>
         /\ UNCHANGED <<n_exported, n_failed>>

\* Lines 189-213: run_request from its entry up to its first get_data call,
\* or to its return when a selection is empty (then lines 370-371 follow).
RunRequestEnter ==
    IF selected_languages = <<>> \/ selected_data_types = <<>>
    THEN /\ pc' = "done"
         /\ printed' = <<"error_configure">> \o SessionEpilogue
         /\ UNCHANGED run_vars
    ELSE /\ pc' = "get_data"
         /\ lang_idx' = 1
         /\ dt_idx' = 1
         /\ get_data_calls' = Append(get_data_calls, GetDataArgs(1, 1))
         /\ printed' = <<>>
         /\ UNCHANGED <<n_exported, n_failed>>

\* choice == "run": run_request() is called.
MenuRun ==
    /\ pc = "menu"
    /\ "run" \in MenuChoices
    /\ RunRequestEnter
    /\ NoPrompt
    /\ UNCHANGED <<config, completed, wrapper_calls, outside_session>>

\* The position after the last pair.
NoPair == <<0, 0>>

\* The loops with the data types outside and the languages inside.
NextPairDataTypesOutside(i, j) ==
    IF i < Len(selected_languages) THEN <<i + 1, j>>
    ELSE IF j < Len(selected_data_types) THEN <<1, j + 1>>
    ELSE NoPair

\* Lines 202-203: the pair the two for loops visit after the pair at (i, j):
\* the languages outside, the data types inside, both in list order.
NextPair(i, j) ==
    IF j < Len(selected_data_types) THEN <<i, j + 1>>
    ELSE IF i < Len(selected_languages) THEN <<i + 1, 1>>
    ELSE NoPair

\* The completion notice printed only when no pair has failed before the
\* last one.
RunRequestEpilogueWhenNothingFailed ==
    (IF overwrite /\ n_failed = 0 THEN <<"request_completed">> ELSE <<>>)
        \o SessionEpilogue

\* Lines 225-226 and 370-371: what is printed once the loops are over.
RunRequestEpilogue ==
    (IF overwrite THEN <<"request_completed">> ELSE <<>>) \o SessionEpilogue

\* A get_data call ends: lines 206-226, up to the next get_data call or to
\* the end of the session. An exception of get_data is caught neither by
\* run_request nor by start_interactive_mode.
GetDataReturns ==
    /\ pc = "get_data"
    /\ \E outcome \in GetDataOutcomes :
        IF outcome = "raise"
        THEN /\ pc' = "raised"
             /\ printed' = <<>>
             /\ UNCHANGED run_vars
        ELSE LET line == IF outcome = "true" THEN "exported" ELSE "failed"
             IN
             /\ n_exported' = IF outcome = "true" THEN n_exported + 1 ELSE n_exported
             /\ n_failed' = IF outcome = "true" THEN n_failed ELSE n_failed + 1
             /\ IF NextPair(lang_idx, dt_idx) # NoPair
                THEN LET next == NextPair(lang_idx, dt_idx)
                     IN  /\ lang_idx' = next[1]
                         /\ dt_idx' = next[2]
                         /\ get_data_calls' =
                                Append(get_data_calls, GetDataArgs(next[1], next[2]))
                         /\ pc' = "get_data"
                         /\ printed' = <<line>>
                ELSE /\ pc' = "done"
                     /\ printed' = <<line>> \o RunRequestEpilogue
                     /\ UNCHANGED <<lang_idx, dt_idx, get_data_calls>>
    /\ UNCHANGED <<config, last_prompt, last_input, completed, wrapper_calls, outside_session>>

(***************************************************************************)
(* request_total_lexeme and request_total_lexeme_loop.                     *)
(***************************************************************************)
\* choice == "total": request_total_lexeme() runs up to its language prompt.
MenuTotal ==
    /\ pc = "menu"
    /\ "total" \in MenuChoices
    /\ pc' = "tl_languages"
    /\ printed' = <<>>
    /\ NoPrompt
    /\ UNCHANGED <<config, completed, run_vars, wrapper_calls, outside_session>>

\* The language selection of request_total_lexeme without the strip()
\* test of line 246: a blank answer is filtered like any other.
TotalSelectLanguagesWithoutKeep(inp) ==
    IF Contains(inp, AllWord)
    THEN languages
    ELSE FilterTokens(Split(inp, Comma), languages)

\* Lines 244-251: the selection after the language prompt's answer.
TotalSelectLanguages(inp) ==
    IF Contains(inp, AllWord)
    THEN languages
    ELSE IF Strip(inp) # <<>>
    THEN FilterTokens(Split(inp, Comma), languages)
    ELSE selected_languages

\* Lines 265-272: the selection after the data-type prompt's answer.
TotalSelectDataTypes(inp) ==
    IF Contains(Capitalize(inp), AllWord)
    THEN data_types
    ELSE IF Strip(inp) # <<>>
    THEN FilterTokens(Split(inp, Comma), data_types)
    ELSE selected_data_types

\* The language prompt returns: lines 239-255, up to the next prompt.
TotalLanguages ==
    /\ pc = "tl_languages"
    /\ \E inp \in LanguageInputs :
        LET sel == TotalSelectLanguages(inp)
        IN  /\ last_prompt' = "tl_languages"
            /\ last_input' = inp
            /\ selected_languages' = sel
            /\ IF sel = <<>>
               THEN \* return request_total_lexeme()
                    /\ pc' = "tl_languages"
                    /\ printed' = <<"no_language_selected">>
               ELSE /\ pc' = "tl_data_types"
                    /\ printed' = <<>>
    /\ UNCHANGED <<selected_data_types, output_type, output_dir, overwrite,
                   configured, completed, run_vars, wrapper_calls, outside_session>>

\* The data-type step of request_total_lexeme without the return of line
\* 276: an empty selection is warned about and the function returns.
TotalDataTypesWithoutRetry ==
    /\ pc = "tl_data_types"
    /\ \E inp \in DataTypeInputs :
        LET sel == TotalSelectDataTypes(inp)
        IN  /\ last_prompt' = "tl_data_types"
            /\ last_input' = inp
            /\ selected_data_types' = sel
            /\ printed' = IF sel = <<>> THEN <<"no_data_type_selected">> ELSE <<>>
    /\ pc' = "tl_menu"
    /\ UNCHANGED <<selected_languages, output_type, output_dir, overwrite,
                   configured, completed, run_vars, wrapper_calls, outside_session>>

\* The data-type prompt returns: lines 260-276, up to the next prompt or,
\* when request_total_lexeme returns, to the question of
\* request_total_lexeme_loop.
TotalDataTypes ==
    /\ pc = "tl_data_types"
    /\ \E inp \in DataTypeInputs :
        LET sel == TotalSelectDataTypes(inp)
        IN  /\ last_prompt' = "tl_data_types"
            /\ last_input' = inp
            /\ selected_data_types' = sel
            /\ IF sel = <<>>
               THEN \* return request_total_lexeme()
                    /\ pc' = "tl_languages"
                    /\ printed' = <<"no_data_type_selected">>
               ELSE /\ pc' = "tl_menu"
                    /\ printed' = <<>>
    /\ UNCHANGED <<selected_languages, output_type, output_dir, overwrite,
                   configured, completed, run_vars, wrapper_calls, outside_session>>

\* choice == "run" in request_total_lexeme_loop: lines 293-301, then the
\* break of line 364.
TotalLoopRun ==
    /\ pc = "tl_menu"
    /\ total_calls' = Append(total_calls,
           [language |-> selected_languages,
            data_type |-> selected_data_types,
            all_bool |-> FALSE])
    /\ selected_languages' = <<>>
    /\ selected_data_types' = <<>>
    /\ printed' = <<"thanks">>
    /\ pc' = "done"
    /\ NoPrompt
    /\ UNCHANGED <<output_type, output_dir, overwrite, configured, completed,
                   run_vars, list_calls, outside_session>>

\* "exit" in request_total_lexeme_loop without the break of line 364: the
\* main menu is shown again.
TotalLoopExitBackToMenu ==
    /\ pc = "tl_menu"
    /\ printed' = <<>>
    /\ pc' = "menu"
    /\ NoPrompt
    /\ UNCHANGED <<config, completed, run_vars, wrapper_calls, outside_session>>

\* choice == "exit" in request_total_lexeme_loop: lines 302-303, then the
\* break of line 364.
TotalLoopExit ==
    /\ pc = "tl_menu"
    /\ printed' = <<>>
    /\ pc' = "done"
    /\ NoPrompt
    /\ UNCHANGED <<config, completed, run_vars, wrapper_calls, outside_session>>

\* Any other choice in request_total_lexeme_loop ("total", or None for a
\* cancelled question): lines 304-306, request_total_lexeme() again.
TotalLoopRequest ==
    /\ pc = "tl_menu"
    /\ printed' = <<>>
    /\ pc' = "tl_languages"
    /\ NoPrompt
    /\ UNCHANGED <<config, completed, run_vars, wrapper_calls, outside_session>>

(***************************************************************************)
(* see_list_languages and the exit of the main menu.                       *)
(***************************************************************************)
\* choice == "languages": see_list_languages() runs up to its question.
MenuLanguages ==
    /\ pc = "menu"
    /\ "languages" \in MenuChoices
    /\ pc' = "list_menu"
    /\ printed' = <<>>
    /\ NoPrompt
    /\ UNCHANGED <<config, completed, run_vars, wrapper_calls, outside_session>>

\* Lines 323-328, then the break of line 367: the question is answered (or
\* cancelled, and then no list_wrapper call is made).
ListChoose ==
    /\ pc = "list_menu"
    /\ \E choice \in {"all_languages", "languages_for_data_type",
                      "data_types_for_language", "none"} :
        list_calls' = IF choice = "none" THEN list_calls
                      ELSE Append(list_calls, choice)
    /\ pc' = "done"
    /\ printed' = <<>>
    /\ UNCHANGED <<config, last_prompt, last_input, completed, run_vars, total_calls, outside_session>>

\* Lines 372-374: "exit", or None for a cancelled question.
MenuExit ==
    /\ pc = "menu"
    /\ pc' = "done"
    /\ printed' = <<"thanks">>
    /\ NoPrompt
    /\ UNCHANGED <<config, completed, run_vars, wrapper_calls, outside_session>>

(***************************************************************************)
(* The interactive session.                                                *)
(***************************************************************************)
Next ==
    \/ MenuConfigure
    \/ ConfigureLanguages
    \/ ConfigureDataTypes
    \/ ConfigureOutputType
    \/ ConfigureOutputDir
    \/ ConfigureOverwrite
    \/ MenuRun
    \/ GetDataReturns
    \/ MenuTotal
    \/ TotalLanguages
    \/ TotalDataTypes
    \/ TotalLoopRun
    \/ TotalLoopExit
    \/ TotalLoopRequest
    \/ MenuLanguages
    \/ ListChoose
    \/ MenuExit

Spec == Init /\ [][Next]_vars

(***************************************************************************)
(* run_request called on its own, on any configuration.                    *)
(***************************************************************************)
\* The lists of at most MaxTokens names of a Registry list.
Selections(registry) ==
    UNION {[1..n -> {registry[k] : k \in 1..Len(registry)}] : n \in 0..MaxTokens}

\* The module imported and config's fields set by the importer; run_request()
\* is about to be called.
InitRunRequest ==
    /\ pc = "run_request"
    /\ selected_languages \in Selections(languages)
    /\ selected_data_types \in Selections(data_types)
    /\ output_type \in OutputTypes
    /\ output_dir \in {Path(DefaultExportDir), Path(<<"o">>)}
    /\ overwrite \in BOOLEAN
    /\ configured \in BOOLEAN
    /\ NothingDone
    /\ printed = <<>>
    /\ in_session = FALSE
    /\ NoMain
    /\ NoFormat

\* run_request() is called: lines 185-213.
RunRequestCalled ==
    /\ pc = "run_request"
    /\ RunRequestEnter
    /\ UNCHANGED <<config, last_prompt, last_input, completed, wrapper_calls,
                   outside_session>>

NextRunRequest ==
    \/ RunRequestCalled
    \/ GetDataReturns

SpecRunRequest == InitRunRequest /\ [][NextRunRequest]_vars

(***************************************************************************)
(* main (src/scribe_data/cli/main.py).                                     *)
(*                                                                         *)
(* A value of the namespace is a record: None, True, or a str. The         *)
(* namespace is a record whose fields are the attributes parse_args has    *)
(* set: those of the subcommand's parser only when a subcommand is given.  *)
(***************************************************************************)
None == [kind |-> "None", str |-> <<>>]
TrueValue == [kind |-> "True", str |-> <<>>]
Str(s) == [kind |-> "str", str |-> s]

IsStr(v) == v.kind = "str"

\* bool(v)
Truthy(v) == v.kind = "True" \/ (IsStr(v) /\ v.str # <<>>)

\* s.replace(old, new) for one-character old and new.
Replace(s, old, new) == [k \in 1..Len(s) |-> IF s[k] = old THEN new ELSE s[k]]

\* v.lower() for a str v.
LowerValue(v) == Str(Lower(v.str))

\* The --language values tried: a name of the Registry, the same name in
\* lower case, a name outside the Registry and the empty string.
LanguageValues ==
    {Str(languages[1]), Str(Lower(languages[1])), Str(<<"x">>), Str(<<>>)}

\* The --data-type values tried: the names of the Registry, the second one
\* also with "-" for "_", a name outside the Registry and the empty string.
DataTypeValues ==
    {Str(data_types[k]) : k \in 1..Len(data_types)}
        \cup {Str(Replace(data_types[2], "_", "-")), Str(<<"x">>), Str(<<>>)}

\* Lines 55-69: no subcommand; only the attributes of the top-level parser.
NoCommandArgs == {[command |-> "none", upgrade |-> u] : u \in BOOLEAN}

\* Lines 73-101: list (l); a flag without a value gives const=True.
ListArgs ==
    {[command |-> c, upgrade |-> u, language |-> l, data_type |-> d, all |-> a] :
        c \in {"list", "l"}, u \in BOOLEAN,
        l \in {None, TrueValue} \cup LanguageValues,
        d \in {None, TrueValue} \cup DataTypeValues,
        a \in {None, TrueValue}}

\* Lines 105-161: get (g).
GetArgs ==
    {[command |-> c, upgrade |-> u, language |-> l, data_type |-> d,
      output_type |-> t, output_dir |-> None, outputs_per_entry |-> None,
      overwrite |-> o, all |-> a, interactive |-> i, identifier_case |-> "camel"] :
        c \in {"get", "g"}, u \in BOOLEAN,
        l \in {None} \cup LanguageValues,
        d \in {None} \cup DataTypeValues,
        t \in {None, Str(Json), Str(Sqlite)},
        o \in BOOLEAN, a \in {None, TrueValue}, i \in BOOLEAN}

\* Lines 165-191: total (t).
TotalArgs ==
    {[command |-> c, upgrade |-> u, language |-> l, data_type |-> d, all |-> a,
      interactive |-> i] :
        c \in {"total", "t"}, u \in BOOLEAN,
        l \in {None} \cup LanguageValues,
        d \in {None} \cup DataTypeValues,
        a \in {None, TrueValue}, i \in BOOLEAN}

\* Lines 195-260: convert (c); language, data type, input file and output
\* type are required.
ConvertArgs ==
    {[command |-> c, upgrade |-> u, language |-> l, data_type |-> d,
      output_type |-> t, input_file |-> "input_file", output_dir |-> None,
      overwrite |-> FALSE, identifier_case |-> "camel"] :
        c \in {"convert", "c"}, u \in BOOLEAN,
        l \in LanguageValues, d \in DataTypeValues,
        t \in {Str(Json), Str(Sqlite)}}

\* Line 264: what parser.parse_args() may return.
MainArgs == NoCommandArgs \cup ListArgs \cup GetArgs \cup TotalArgs \cup ConvertArgs

\* What no action of main changes.
main_frame == <<config, last_prompt, last_input, completed, run_vars,
                wrapper_calls, format_vars>>

\* main has parsed its arguments (line 264) in a process that has imported
\* the interactive module.
InitMain ==
    /\ pc = "main"
    /\ args \in MainArgs
    /\ main_calls = <<>>
    /\ NewConfig
    /\ NothingDone
    /\ printed = <<>>
    /\ in_session = FALSE
    /\ NoFormat

\* validate_language_and_data_type: TRUE when it returns, FALSE when it
\* raises ValueError; a str value has to be a name of the Registry list.
IsValid(v, registry) == IsStr(v) => InList(v.str, registry)
ValidateLanguageAndDataType(language, data_type) ==
    IsValid(language, languages) /\ IsValid(data_type, data_types)

\* Lines 266-267: the data type with "-" replaced by "_".
NormaliseDataType(v) ==
    IF Truthy(v) /\ IsStr(v) THEN Str(Replace(v.str, "-", "_")) ELSE v

\* Lines 266-277: the data type is normalised and the values are validated.
\* Without a subcommand the namespace has no data_type attribute, and line
\* 266 raises AttributeError.
MainValidate ==
    /\ pc = "main"
    /\ IF "data_type" \notin DOMAIN args
       THEN /\ pc' = "raised"
            /\ printed' = <<>>
            /\ UNCHANGED <<args, main_calls>>
       ELSE LET data_type == NormaliseDataType(args.data_type)
            IN  /\ args' = [args EXCEPT !.data_type = data_type]
                /\ IF Truthy(args.language) \/ Truthy(data_type)
                   THEN /\ main_calls' = Append(main_calls,
                               [fn |-> "validate_language_and_data_type",
                                language |-> args.language,
                                data_type |-> data_type])
                        /\ IF ValidateLanguageAndDataType(args.language, data_type)
                           THEN pc' = "main_validated" /\ printed' = <<>>
                           ELSE pc' = "returned" /\ printed' = <<"validation_failed">>
                   ELSE /\ main_calls' = main_calls
                        /\ pc' = "main_validated"
                        /\ printed' = <<>>
    /\ UNCHANGED <<main_frame, in_session>>

\* Lines 279-281: --upgrade. (Lines 283-285 are never reached with no
\* subcommand: line 266 has raised.)
MainUpgrade ==
    /\ pc = "main_validated"
    /\ args.upgrade
    /\ main_calls' = Append(main_calls, [fn |-> "upgrade_cli"])
    /\ pc' = "called"
    /\ printed' = <<>>
    /\ UNCHANGED <<args, main_frame, in_session>>

\* Lines 288-291: list.
MainList ==
    /\ pc = "main_validated"
    /\ ~args.upgrade
    /\ args.command \in {"list", "l"}
    /\ main_calls' = Append(main_calls,
           [fn |-> "list_wrapper", language |-> args.language,
            data_type |-> args.data_type, all_bool |-> args.all])
    /\ pc' = "called"
    /\ printed' = <<>>
    /\ UNCHANGED <<args, main_frame, in_session>>

\* Line 331: def start_interactive_mode(): the names of its parameters.
StartInteractiveModeParameters == {}

\* Lines 295 and 311: start_interactive_mode(**kwargs) is called; Python
\* raises TypeError for a keyword that is not a parameter, and the function
\* starts at its menu otherwise.
StartInteractiveMode(kwargs) ==
    /\ main_calls' = main_calls
    /\ IF kwargs \subseteq StartInteractiveModeParameters
       THEN /\ pc' = "menu"
            /\ in_session' = TRUE
            /\ printed' = <<"welcome">>
       ELSE /\ pc' = "raised"
            /\ in_session' = in_session
            /\ printed' = <<>>

\* The get_data call with the language and the data type as typed.
MainGetDataArgsAsTyped ==
    [fn |-> "get_data",
     language |-> args.language,
     data_type |-> args.data_type,
     output_type |-> args.output_type,
     output_dir |-> args.output_dir,
     outputs_per_entry |-> args.outputs_per_entry,
     overwrite |-> args.overwrite,
     all |-> args.all,
     identifier_case |-> args.identifier_case]

\* Lines 298-307: the arguments of main's get_data call.
MainGetDataArgs ==
    [fn |-> "get_data",
     language |-> LowerValue(args.language),
     data_type |-> LowerValue(args.data_type),
     output_type |-> args.output_type,
     output_dir |-> args.output_dir,
     outputs_per_entry |-> args.outputs_per_entry,
     overwrite |-> args.overwrite,
     all |-> args.all,
     identifier_case |-> args.identifier_case]

\* Lines 293-307: get. None has no lower(): AttributeError.
MainGet ==
    /\ pc = "main_validated"
    /\ ~args.upgrade
    /\ args.command \in {"get", "g"}
    /\ IF args.interactive
       THEN StartInteractiveMode({"operation"})
       ELSE /\ in_session' = in_session
            /\ printed' = <<>>
            /\ IF IsStr(args.language) /\ IsStr(args.data_type)
               THEN /\ main_calls' = Append(main_calls, MainGetDataArgs)
                    /\ pc' = "called"
               ELSE /\ main_calls' = main_calls
                    /\ pc' = "raised"
    /\ UNCHANGED <<args, main_frame>>

\* Lines 309-322: total.
MainTotal ==
    /\ pc = "main_validated"
    /\ ~args.upgrade
    /\ args.command \in {"total", "t"}
    /\ IF args.interactive
       THEN StartInteractiveMode({"operation"})
       ELSE /\ in_session' = in_session
            /\ printed' = <<>>
            /\ main_calls' = Append(main_calls,
                   [fn |-> "total_wrapper",
                    language |-> IF args.language # None
                                 THEN LowerValue(args.language) ELSE None,
                    data_type |-> IF args.data_type # None
                                  THEN LowerValue(args.data_type) ELSE None,
                    all_bool |-> args.all])
            /\ pc' = "called"
    /\ UNCHANGED <<args, main_frame>>

\* Lines 324-333: convert.
MainConvert ==
    /\ pc = "main_validated"
    /\ ~args.upgrade
    /\ args.command \in {"convert", "c"}
    /\ main_calls' = Append(main_calls,
           [fn |-> "convert_wrapper",
            language |-> LowerValue(args.language),
            data_type |-> args.data_type,
            output_type |-> args.output_type,
            input_file |-> args.input_file,
            output_dir |-> args.output_dir,
            overwrite |-> args.overwrite,
            identifier_case |-> args.identifier_case])
    /\ pc' = "called"
    /\ printed' = <<>>
    /\ UNCHANGED <<args, main_frame, in_session>>

\* main up to the call it dispatches to ("called"), to its return without
\* one ("returned") or to an exception ("raised").
NextMain ==
    \/ MainValidate
    \/ MainUpgrade
    \/ MainList
    \/ MainGet
    \/ MainTotal
    \/ MainConvert

SpecMain == InitMain /\ [][NextMain]_vars

(***************************************************************************)
(* The Portuguese verbs formatter                                          *)
(* (src/scribe_data/language_data_extraction/Portuguese/verbs/             *)
(* format_verbs.py).                                                       *)
(*                                                                         *)
(* A row of the query result is a function from its field names to str     *)
(* values; the dict verbs_formatted is the sequence of its (key, value)    *)
(* items in the dict's order.                                              *)
(***************************************************************************)
\* Lines 21-46.
all_conjugations ==
    <<"presFPS", "presSPS", "presTPS", "presFPP", "presSPP", "presTPP",
      "perfFPS", "perfSPS", "perfTPS", "perfFPP", "perfSPP", "perfTPP",
      "impFPS", "impSPS", "impTPS", "impFPP", "impSPP", "impTPP",
      "fSimpFPS", "fSimpSPS", "fSimpTPS", "fSimpFPP", "fSimpSPP", "fSimpTPP">>

\* ord(c), for the characters of the infinitives tried.
Ord(c) ==
    CASE c = "Z" -> 90
      [] c = "a" -> 97
      [] c = "b" -> 98

\* s < t for two str: the order sorted() uses.
RECURSIVE StrLess(_, _)
StrLess(s, t) ==
    IF s = <<>> THEN t # <<>>
    ELSE IF t = <<>> THEN FALSE
    ELSE IF Ord(Head(s)) # Ord(Head(t)) THEN Ord(Head(s)) < Ord(Head(t))
    ELSE StrLess(Tail(s), Tail(t))

\* The infinitives tried, not in sorted order.
Infinitives == {<<"b">>, <<"a", "b">>, <<"a">>, <<"Z">>}

\* The rows tried: an infinitive; the first conjugation absent or with one
\* of two values; the last conjugation and a field that is no conjugation
\* absent or present.
QueriedRows ==
    {r \in UNION {[S \cup {"infinitive"} -> Infinitives \cup {<<"v">>, <<"w">>}] :
                     S \in SUBSET {"presFPS", "fSimpTPP", "lexeme"}} :
        /\ r["infinitive"] \in Infinitives
        /\ \A f \in DOMAIN r \ {"infinitive"} :
               r[f] \in (IF f = "presFPS" THEN {<<"v">>, <<"w">>} ELSE {<<"v">>})}

\* Lines 14-19: load_queried_data has returned the rows; the dict is empty.
InitFormat ==
    /\ pc = "format"
    /\ verbs_list \in UNION {[1..n -> QueriedRows] : n \in 0..MaxRows}
    /\ verbs_formatted = <<>>
    /\ NewConfig
    /\ NothingDone
    /\ printed = <<>>
    /\ in_session = FALSE
    /\ NoMain

\* The inner loop without its else branch: a conjugation the row lacks is
\* left out.
FormatRowOmittingMissing(verb_vals) ==
    [conj \in {all_conjugations[k] : k \in 1..Len(all_conjugations)}
                  \cap DOMAIN verb_vals |-> verb_vals[conj]]

\* Lines 49-55: the entry built for one row.
FormatRow(verb_vals) ==
    [conj \in {all_conjugations[k] : k \in 1..Len(all_conjugations)} |->
        IF conj \in DOMAIN verb_vals THEN verb_vals[conj] ELSE <<>>]

\* d[key] = value for a dict d: a key the dict has keeps its place.
DictSet(items, key, value) ==
    IF \E k \in 1..Len(items) : items[k][1] = key
    THEN [k \in 1..Len(items) |->
             IF items[k][1] = key THEN <<key, value>> ELSE items[k]]
    ELSE Append(items, <<key, value>>)

\* Lines 48-55: the for loop over the rows, from the dict it starts with.
RECURSIVE FormatRows(_, _)
FormatRows(rows, items) ==
    IF rows = <<>> THEN items
    ELSE FormatRows(Tail(rows),
                    DictSet(items, Head(rows)["infinitive"], FormatRow(Head(rows))))

\* sorted(items): the items one by one put before the first item with a
\* larger key (the keys of a dict are distinct).
RECURSIVE Insert(_, _)
Insert(item, sorted) ==
    IF sorted = <<>> THEN <<item>>
    ELSE IF StrLess(item[1], Head(sorted)[1]) THEN <<item>> \o sorted
    ELSE <<Head(sorted)>> \o Insert(item, Tail(sorted))

RECURSIVE SortItems(_)
SortItems(items) ==
    IF items = <<>> THEN <<>>
    ELSE Insert(items[Len(items)], SortItems(SubSeq(items, 1, Len(items) - 1)))

\* Lines 48-64: the script from its loop to the export_formatted_data call.
FormatVerbs ==
    /\ pc = "format"
    /\ verbs_formatted' = SortItems(FormatRows(verbs_list, verbs_formatted))
    /\ pc' = "exported"
    /\ UNCHANGED <<config, last_prompt, last_input, completed, printed, run_vars,
                   wrapper_calls, in_session, main_vars, verbs_list>>

NextFormat == FormatVerbs

SpecFormat == InitFormat /\ [][NextFormat]_vars

(***************************************************************************)
(* Properties.                                                             *)
(***************************************************************************)
\* run_request has entered its loops in this session.
RunStarted == lang_idx > 0

\* run_request has returned normally after its loops.
RunFinished == pc = "done" /\ RunStarted

\* The pair the k-th get_data call is made for.
CallPair(k) == <<get_data_calls[k].language, get_data_calls[k].data_type>>

\* The k-th element of [(l, d) for l in selected_languages for d in
\* selected_data_types], k counted from 1.
PairAt(k) ==
    LET D == Len(selected_data_types)
    IN  <<selected_languages[((k - 1) \div D) + 1],
          selected_data_types[((k - 1) % D) + 1]>>

C2_FailureNeverStopsTheBatch ==
    /\ pc # "raised"
    /\ (RunStarted /\ pc \in {"done", "raised"}) =>
          Len(get_data_calls) = Len(selected_languages) * Len(selected_data_types)

\* The comma-separated tokens of an answer, each stripped.
Tokens(inp) ==
    LET parts == Split(inp, Comma)
    IN  [k \in 1..Len(parts) |-> Strip(parts[k])]

\* Every token of the answer is outside the Registry list.
AllTokensOutside(inp, registry) ==
    \A k \in 1..Len(Tokens(inp)) : ~InList(Tokens(inp)[k], registry)

\* The answer holds a token of the Registry list and a token outside it.
MixesMembersAndOthers(inp, registry) ==
    /\ \E k \in 1..Len(Tokens(inp)) : InList(Tokens(inp)[k], registry)
    /\ \E k \in 1..Len(Tokens(inp)) : ~InList(Tokens(inp)[k], registry)

\* The word "All" in every casing.
AllCasings ==
    {<<a, l1, l2>> : a \in {"a", "A"}, l1 \in {"l", "L"}, l2 \in {"l", "L"}}

\* The answer does not hold the letters of "All", in any casing.
WithoutAllWord(inp) == \A w \in AllCasings : ~Contains(inp, w)

\* No token of the answer is the word "All", in any casing.
NoAllToken(inp) ==
    \A k \in 1..Len(Tokens(inp)) : Tokens(inp)[k] \notin AllCasings

\* C3: at the language step and at the data-type step of configure_settings,
\* a non-blank answer whose tokens are all outside the Registry (and that
\* does not use the word "All") leaves the selection empty, is answered by the
\* warning of that step, and leaves the session at the prompt of that same
\* step.
C3_InvalidOnlyAnswerRepromptsTheSameStep ==
    /\ (/\ last_prompt = "cs_languages"
        /\ AllTokensOutside(last_input, languages)
        /\ Strip(last_input) # <<>>
        /\ WithoutAllWord(last_input))
           => /\ selected_languages = <<>>
              /\ Head(printed) = "no_language_selected"
              /\ pc = "cs_languages"
    /\ (/\ last_prompt = "cs_data_types"
        /\ AllTokensOutside(last_input, data_types)
        /\ Strip(last_input) # <<>>
        /\ WithoutAllWord(last_input))
           => /\ selected_data_types = <<>>
              /\ Head(printed) = "no_data_type_selected"
              /\ pc = "cs_data_types"

\* C4: every element of config.selected_languages is a member of
\* config.languages and every element of config.selected_data_types is a
\* member of config.data_types, in every state of the session.
C4_SelectionsAreDrawnFromTheRegistry ==
    /\ \A k \in 1..Len(selected_languages) : InList(selected_languages[k], languages)
    /\ \A k \in 1..Len(selected_data_types) : InList(selected_data_types[k], data_types)

\* An answer naming a language and a name outside the Registry has been
\* processed.
C4_Witness ==
    /\ last_prompt = "cs_languages"
    /\ last_input = <<"x", ",", "F">>
    /\ selected_languages = << <<"F">> >>

\* C5, as stated: config.output_type is one of json, csv, tsv in every
\* state of the session, the states blocked at the output-type prompt after
\* an invalid answer included.
C5_OutputTypeAlwaysInTheEnumeration == output_type \in OutputTypes

\* C5, amended: config.output_type is one of json, csv, tsv in every state
\* of the session except those blocked at the output-type prompt after an
\* invalid answer, where it is that answer.
C5_OutputTypeInTheEnumerationOutsideItsPrompt ==
    \/ output_type \in OutputTypes
    \/ /\ pc = "cs_output_type"
       /\ last_prompt = "cs_output_type"
       /\ output_type = last_input

\* An invalid answer and then a valid one have been given, and the session
\* has moved on with the valid one.
C5_Witness ==
    /\ pc = "cs_output_dir"
    /\ last_prompt = "cs_output_type"
    /\ output_type = Tsv

\* C6: the answer "All" at the language prompt (at the data-type prompt) of
\* configure_settings makes selected_languages (selected_data_types) the
\* whole Registry list, and the session moves to the next step.
C6_AllSelectsTheWholeRegistry ==
    /\ (last_prompt = "cs_languages" /\ last_input = AllWord)
           => selected_languages = languages /\ pc = "cs_data_types"
    /\ (last_prompt = "cs_data_types" /\ last_input = AllWord)
           => selected_data_types = data_types /\ pc = "cs_output_type"

\* "All" has been answered at the data-type prompt, after "All" at the
\* language prompt.
C6_Witness ==
    /\ last_prompt = "cs_data_types"
    /\ last_input = AllWord
    /\ selected_languages = languages
    /\ selected_data_types = data_types

\* C7: in every casing, the word "All" answered at the language prompt or
\* at the data-type prompt of configure_settings selects the whole Registry
\* list of that prompt.
C7_AllIsRecognisedInEveryCasing ==
    /\ (last_prompt = "cs_languages" /\ last_input \in AllCasings)
           => selected_languages = languages
    /\ (last_prompt = "cs_data_types" /\ last_input \in AllCasings)
           => selected_data_types = data_types

\* C8: an answer that mixes names of the Registry and other names (none of
\* them the word "All") selects the stripped tokens that are in the
\* Registry, in the order of the answer, with no warning and no new prompt
\* of the same step.
C8_MixedAnswerKeepsTheMembersInOrder ==
    /\ (/\ last_prompt = "cs_languages"
        /\ MixesMembersAndOthers(last_input, languages)
        /\ NoAllToken(last_input))
           => /\ selected_languages = FilterTokens(Split(last_input, Comma), languages)
              /\ printed = <<>>
              /\ pc = "cs_data_types"
    /\ (/\ last_prompt = "cs_data_types"
        /\ MixesMembersAndOthers(last_input, data_types)
        /\ NoAllToken(last_input))
           => /\ selected_data_types = FilterTokens(Split(last_input, Comma), data_types)
              /\ printed = <<>>
              /\ pc = "cs_output_type"

\* The five steps of configure_settings, in their order, and the prompt of
\* each.
FiveSteps == <<"languages", "data_types", "output_type", "output_dir", "overwrite">>
StepPrompts ==
    <<"cs_languages", "cs_data_types", "cs_output_type", "cs_output_dir", "cs_overwrite">>

\* The steps completed so far are the first ones of the fixed order, the
\* session waits at the prompt of the next one, and each completed step has
\* left a valid value.
StepsInOrder ==
    /\ Len(completed) <= Len(FiveSteps)
    /\ completed = SubSeq(FiveSteps, 1, Len(completed))
    /\ (\E k \in 1..Len(StepPrompts) : pc = StepPrompts[k])
           => pc = StepPrompts[Len(completed) + 1]
    /\ Len(completed) >= 1 => selected_languages # <<>>
    /\ Len(completed) >= 2 => selected_data_types # <<>>
    /\ Len(completed) >= 3 => output_type \in OutputTypes

\* C9: configure_settings goes through languages, data types, output type,
\* output directory and overwrite in that order; config.configured is set
\* only by the overwrite step, at the end of a pass that has completed all
\* five steps with valid values.
C9_ConfiguredOnlyAfterAFullPass ==
    /\ [](StepsInOrder
          /\ (last_prompt = "cs_overwrite" => configured /\ completed = FiveSteps))
    /\ [][(~configured /\ configured')
              => pc = "cs_overwrite" /\ completed' = FiveSteps]_vars

\* A pass has just ended at the menu with all five steps completed.
C9_Witness ==
    /\ pc = "menu"
    /\ last_prompt = "cs_overwrite"
    /\ configured
    /\ completed = FiveSteps

\* C10: the overwrite step sets config.overwrite to true when the answer is
\* empty or starts with "y" or "Y", and to false otherwise.
C10_OverwriteFollowsTheFirstLetter ==
    last_prompt = "cs_overwrite"
        => overwrite = (last_input = <<>> \/ Head(last_input) \in {"y", "Y"})

\* C11: at the output-type step an answer outside json, csv, tsv is never
\* accepted and never replaced by another value: the step warns and prompts
\* again, as often as such answers come; the pass goes on to the output
\* directory only with an answer of the list, which is then the output
\* type; the language and data-type selections are not changed by the step.
C11_InvalidOutputTypeRepromptsTheSameStep ==
    [][pc = "cs_output_type"
          => /\ selected_languages' = selected_languages
             /\ selected_data_types' = selected_data_types
             /\ IF last_input' \in OutputTypes
                THEN pc' = "cs_output_dir" /\ output_type' = last_input'
                ELSE /\ pc' = "cs_output_type"
                     /\ printed' = <<"invalid_output_type">>
                     /\ completed' = completed]_vars

\* The step has prompted again after an answer outside the list.
C11_Witness ==
    /\ pc = "cs_output_type"
    /\ last_prompt = "cs_output_type"
    /\ last_input = Sqlite
    /\ printed = <<"invalid_output_type">>
    /\ selected_languages # <<>>
    /\ selected_data_types # <<>>

\* C12: at the output-directory step an empty answer leaves config.output_dir
\* as it was, any other answer makes config.output_dir the path typed, and
\* no other field of the configuration is changed.
C12_OutputDirKeptOnBlankSetOtherwise ==
    [][pc = "cs_output_dir"
          => /\ output_dir' = IF last_input' = <<>> THEN output_dir
                                                   ELSE Path(last_input')
             /\ UNCHANGED <<selected_languages, selected_data_types, output_type,
                            overwrite, configured>>]_vars

\* An empty answer has kept the directory an earlier pass had set.
C12_Witness ==
    /\ pc = "cs_overwrite"
    /\ last_prompt = "cs_output_dir"
    /\ last_input = <<>>
    /\ output_dir = <<"o">>
    /\ configured

\* The number of elements of seq that equal x.
RECURSIVE Count(_, _)
Count(seq, x) ==
    IF seq = <<>> THEN 0
    ELSE (IF Head(seq) = x THEN 1 ELSE 0) + Count(Tail(seq), x)

\* C16: once run_request has processed every pair, the completion notice
\* has been printed exactly once, right after the last pair's line, when
\* config.overwrite is true, whatever the number of failed pairs, and not at
\* all when config.overwrite is false; it is never printed before.
C16_CompletionNoticeFollowsOverwrite ==
    /\ RunFinished
           => /\ n_exported + n_failed
                     = Len(selected_languages) * Len(selected_data_types)
              /\ Count(printed, "request_completed") = (IF overwrite THEN 1 ELSE 0)
              /\ printed[1] \in {"exported", "failed"}
    /\ Count(printed, "request_completed") > 0
           => RunFinished /\ printed[2] = "request_completed"

\* A run with overwrite set has ended with every one of its pairs failed.
C16_Witness ==
    /\ RunFinished
    /\ overwrite
    /\ n_exported = 0
    /\ n_failed >= 2
    /\ Count(printed, "request_completed") = 1

\* request_total_lexeme is running, or is entered or left by the step.
InTotalRequest == pc \in {"tl_languages", "tl_data_types"}

\* C17: request_total_lexeme returns (to the question of
\* request_total_lexeme_loop) only with both selections non-empty, and it
\* never changes output_type, output_dir, overwrite or configured.
C17_TotalRequestReturnsWithBothSelections ==
    /\ [](pc = "tl_menu" => selected_languages # <<>> /\ selected_data_types # <<>>)
    /\ [][(InTotalRequest \/ InTotalRequest')
              => UNCHANGED <<output_type, output_dir, overwrite, configured>>]_vars

\* request_total_lexeme has returned after a data-type answer.
C17_Witness ==
    /\ pc = "tl_menu"
    /\ last_prompt = "tl_data_types"
    /\ selected_languages # <<>>
    /\ selected_data_types # <<>>

\* C19: run_request does not modify the configuration, and every get_data
\* call of a run gets the same output_type, output_dir and overwrite: those
\* of the configuration.
C19_RunRequestOnlyReadsTheConfiguration ==
    /\ [](\A k \in 1..Len(get_data_calls) :
              /\ get_data_calls[k].output_type = output_type
              /\ get_data_calls[k].output_dir = output_dir
              /\ get_data_calls[k].overwrite = overwrite)
    /\ [][(pc = "get_data" \/ pc' = "get_data") => UNCHANGED config]_vars

\* A run of several calls has ended with a directory and a flag that are
\* not the defaults.
C19_Witness ==
    /\ RunFinished
    /\ Len(get_data_calls) >= 2
    /\ output_dir = <<"o">>
    /\ overwrite

\* C20: run_request called while config.selected_languages or
\* config.selected_data_types is empty prints the configuration error and
\* returns: no get_data call, no progress of the loops, no completion notice,
\* and the configuration as it was.
C20_RunRequestRefusesAnEmptySelection ==
    [][(pc = "run_request"
            /\ (selected_languages = <<>> \/ selected_data_types = <<>>))
          => /\ pc' = "done"
             /\ printed' = <<"error_configure">>
             /\ get_data_calls' = <<>>
             /\ UNCHANGED <<config, run_vars>>]_vars

\* run_request has returned at once: languages are selected, no data type
\* is, and overwrite is set.
C20_Witness ==
    /\ pc = "done"
    /\ ~RunStarted
    /\ ~in_session
    /\ selected_languages # <<>>
    /\ selected_data_types = <<>>
    /\ overwrite
    /\ printed = <<"error_configure">>

\* main is about to dispatch a get or total invocation with --interactive.
InteractiveDispatch ==
    /\ pc = "main_validated"
    /\ ~args.upgrade
    /\ args.command \in {"get", "g", "total", "t"}
    /\ args.interactive

\* The calls of main, so far, to one function.
CallsTo(fn) == {k \in 1..Len(main_calls) : main_calls[k].fn = fn}

\* C13: when main dispatches a get or total invocation with --interactive,
\* its call is one start_interactive_mode accepts: the session starts at its
\* menu, and main makes no get_data and no total_wrapper call.
C13_InteractiveDispatchStartsTheSession ==
    [][InteractiveDispatch
          => /\ pc' = "menu"
             /\ in_session'
             /\ main_calls' = main_calls]_vars

\* main is about to dispatch a get invocation without --interactive whose
\* language, data type (normalised) and output type are valid.
ValidGetDispatch ==
    /\ pc = "main_validated"
    /\ args.command \in {"get", "g"}
    /\ ~args.interactive
    /\ IsStr(args.language) /\ InList(args.language.str, languages)
    /\ IsStr(args.data_type) /\ InList(args.data_type.str, data_types)
    /\ IsStr(args.output_type)

\* The step of lines 266-267 leaves the data type with "_" for every "-".
DataTypeNormalised ==
    (pc = "main" /\ pc' = "main_validated" /\ IsStr(args.data_type))
        => args'.data_type = Str(Replace(args.data_type.str, "-", "_"))

\* C14, as stated: every get invocation without --interactive with valid
\* language L, data type D and output type T calls get_data exactly once,
\* with exactly L, D with "_" for "-", and T, and never enters the session.
C14_GetPassesTheValuesAsTyped ==
    [][/\ DataTypeNormalised
       /\ ValidGetDispatch
             => /\ pc' = "called"
                /\ ~in_session'
                /\ main_calls' = Append(main_calls, main_calls'[Len(main_calls')])
                /\ Cardinality(CallsTo("get_data")') = 1
                /\ LET call == main_calls'[Len(main_calls')]
                   IN  /\ call.fn = "get_data"
                       /\ call.language = args.language
                       /\ call.data_type = args.data_type
                       /\ call.output_type = args.output_type]_vars

\* C14, amended: every get invocation without --interactive and without
\* --upgrade with valid L, D and T calls get_data exactly once, with L in
\* lower case, D with "_" for "-" and in lower case, and T, and never enters
\* the session.
C14_GetPassesTheValuesInLowerCase ==
    [][/\ DataTypeNormalised
       /\ (ValidGetDispatch /\ ~args.upgrade)
             => /\ pc' = "called"
                /\ ~in_session'
                /\ main_calls' = Append(main_calls, main_calls'[Len(main_calls')])
                /\ Cardinality(CallsTo("get_data")') = 1
                /\ LET call == main_calls'[Len(main_calls')]
                   IN  /\ call.fn = "get_data"
                       /\ call.language = Str(Lower(args.language.str))
                       /\ call.data_type = Str(Lower(args.data_type.str))
                       /\ call.output_type = args.output_type]_vars

\* get_data was called for a language typed with a capital and a data type
\* whose name holds "_".
C14_Witness ==
    /\ pc = "called"
    /\ args.command = "get"
    /\ args.language = Str(<<"F">>)
    /\ args.data_type = Str(<<"p", "_", "n">>)
    /\ Len(main_calls) = 2
    /\ main_calls[2].fn = "get_data"
    /\ main_calls[2].language = Str(<<"f">>)
    /\ main_calls[2].output_type = Str(Json)

\* A subcommand was given with a str for --language or --data-type.
ValueSupplied ==
    /\ "data_type" \in DOMAIN args
    /\ IsStr(args.language) \/ IsStr(args.data_type)

\* C15: whenever a --language or --data-type value is supplied, main
\* validates before it invokes any handler or the upgrade, with "_" for
\* every "-" of the data type; when the validation fails, main prints the
\* error and returns with no handler invoked.
C15_SuppliedValuesAreValidatedFirst ==
    (ValueSupplied /\ pc # "main")
        => /\ main_calls # <<>>
           /\ main_calls[1].fn = "validate_language_and_data_type"
           /\ main_calls[1].language = args.language
           /\ main_calls[1].data_type = args.data_type
           /\ IsStr(args.data_type) => ~Contains(args.data_type.str, <<"-">>)
           /\ ~ValidateLanguageAndDataType(args.language, args.data_type)
                  => /\ pc = "returned"
                     /\ printed = <<"validation_failed">>
                     /\ Len(main_calls) = 1

\* The rows of the query result with one infinitive.
RowsOf(key) == {k \in 1..Len(verbs_list) : verbs_list[k]["infinitive"] = key}

\* The row an entry is built from: the last one with the infinitive.
LastRowOf(key) ==
    verbs_list[CHOOSE k \in RowsOf(key) : \A m \in RowsOf(key) : m <= k]

\* C18: for every list of rows the formatter hands over a mapping keyed by
\* infinitive (one entry for each infinitive of the rows); every entry has
\* exactly the 24 fields of all_conjugations, each with the value of the row
\* the entry is built from (the last row with the infinitive) when that row
\* has the field and "" when it has not; the keys are in ascending order.
C18_EveryEntryHasAllConjugations ==
    pc = "exported"
        => /\ {verbs_formatted[k][1] : k \in 1..Len(verbs_formatted)}
                  = {verbs_list[k]["infinitive"] : k \in 1..Len(verbs_list)}
           /\ \A k \in 1..Len(verbs_formatted) :
                  LET key == verbs_formatted[k][1]
                      entry == verbs_formatted[k][2]
                      row == LastRowOf(key)
                  IN  /\ Cardinality(DOMAIN entry) = 24
                      /\ \A c \in 1..Len(all_conjugations) :
                             LET conj == all_conjugations[c]
                             IN  /\ conj \in DOMAIN entry
                                 /\ entry[conj] = IF conj \in DOMAIN row
                                                  THEN row[conj] ELSE <<>>
           /\ \A k \in 1..(Len(verbs_formatted) - 1) :
                  StrLess(verbs_formatted[k][1], verbs_formatted[k + 1][1])

\* Rows given out of order, one of them without its first conjugation, have
\* been formatted.
C18_Witness ==
    /\ pc = "exported"
    /\ Len(verbs_list) = 2
    /\ verbs_list[1]["infinitive"] = <<"a", "b">>
    /\ verbs_list[2]["infinitive"] = <<"Z">>
    /\ "presFPS" \notin DOMAIN verbs_list[1]
    /\ "lexeme" \in DOMAIN verbs_list[1]
    /\ verbs_formatted[1][1] = <<"Z">>
    /\ verbs_formatted[2][2]["presFPS"] = <<>>

\* The prompt just answered got an empty or whitespace-only answer.
BlankAnswer == Strip(last_input) = <<>>

\* C21: in request_total_lexeme an empty or whitespace-only answer at the
\* language or data-type prompt leaves that selection as it was, and the
\* function prompts again (from its start) only when the selection kept is
\* empty; in configure_settings the same answer empties the selection and
\* the function prompts again.
C21_BlankAnswerKeepsTheTotalSelection ==
    [][/\ (pc = "tl_languages" /\ BlankAnswer')
             => /\ selected_languages' = selected_languages
                /\ pc' = IF selected_languages = <<>> THEN "tl_languages"
                                                       ELSE "tl_data_types"
       /\ (pc = "tl_data_types" /\ BlankAnswer')
             => /\ selected_data_types' = selected_data_types
                /\ pc' = IF selected_data_types = <<>> THEN "tl_languages"
                                                        ELSE "tl_menu"
       /\ (pc = "cs_languages" /\ BlankAnswer')
             => selected_languages' = <<>> /\ pc' = "cs_languages"
       /\ (pc = "cs_data_types" /\ BlankAnswer')
             => selected_data_types' = <<>> /\ pc' = "cs_languages"]_vars

\* A whitespace-only answer at the language prompt of request_total_lexeme
\* has kept a selection made before.
C21_Witness ==
    /\ pc = "tl_data_types"
    /\ last_prompt = "tl_languages"
    /\ last_input = <<" ">>
    /\ selected_languages # <<>>

\* The two shapes of the configuration at the main menu.
FreshShape ==
    selected_languages = <<>> /\ selected_data_types = <<>> /\ ~configured
ConfiguredShape ==
    selected_languages # <<>> /\ selected_data_types # <<>> /\ configured

\* C22: whenever start_interactive_mode shows its main menu, either both
\* selections are empty and configured is false, or both are non-empty and
\* configured is true; so "run" is offered exactly when configured is true;
\* and configured, once true, stays true.
C22_MenuShowsOneOfTwoShapes ==
    /\ [](pc = "menu"
             => /\ FreshShape \/ ConfiguredShape
                /\ ("run" \in MenuChoices) = configured)
    /\ [][configured => configured']_vars

\* The menu is shown after a configure_settings pass, with "run" offered.
C22_Witness ==
    /\ pc = "menu"
    /\ ConfiguredShape
    /\ "run" \in MenuChoices
    /\ "total" \notin MenuChoices

\* The session has ended, by a break or a return or by an exception.
SessionEnded == pc \in {"done", "raised"}

\* C23: in a session started from a new configuration every get_data call
\* comes after a completed configure_settings pass (configured is true and
\* both selections are non-empty); run_request is run at most once; the
\* session ends right after that run, as it does after the total, list and
\* exit choices: only the "configure" choice comes back to the menu.
C23_OneRunAfterAConfigurePass ==
    /\ [](get_data_calls # <<>> => ConfiguredShape)
    /\ [](RunStarted => pc \in {"get_data", "done", "raised"})
    /\ [][/\ ~SessionEnded
          /\ pc' = "menu" => pc = "cs_overwrite" /\ completed' = FiveSteps
          /\ (pc = "menu" /\ pc' \notin {"cs_languages"})
                => \/ pc' \in {"tl_languages", "list_menu", "get_data"} \/ SessionEnded'
          /\ (pc = "menu" /\ pc' = "get_data") => ~RunStarted
          /\ pc \in {"tl_languages", "tl_data_types", "tl_menu"}
                => pc' \in {"tl_languages", "tl_data_types", "tl_menu", "done"}
          /\ pc = "list_menu" => pc' = "done"
          /\ pc = "get_data" => pc' \in {"get_data", "done", "raised"}]_vars

\* A configured run of several pairs has ended the session.
C23_Witness ==
    /\ RunFinished
    /\ ConfiguredShape
    /\ Len(get_data_calls) >= 2
    /\ completed = FiveSteps

====
